---- MODULE Spec2Model ----
(***************************************************************************)
(* Model of mcp-replicate: the prediction handlers that poll the remote    *)
(* job API and emit prediction/* notifications, the ReplicateClient cache  *)
(* they read through, and the SSEServerTransport that routes the           *)
(* notifications to subscribed connections; and the WebhookService, whose  *)
(* processing loop delivers queued webhooks with retries.                  *)
(*                                                                         *)
(* Granularity.  The program runs on one Node.js event loop.  An action of *)
(* the model is one run-to-completion piece of a handler: it starts at a   *)
(* timer callback, an I/O completion or a tool call and ends at the next   *)
(* await of a network request or of a timer.  An await of an async         *)
(* function whose body has no such suspension (transport.notify,           *)
(* cleanupConnection) resumes on the microtask queue before any timer or   *)
(* I/O callback runs, so it does not end the action.                       *)
(***************************************************************************)
EXTENDS Integers, Sequences, FiniteSets, Bags, TLC

(***************************************************************************)
(* Bounds of the model.                                                    *)
(***************************************************************************)
MaxBudget == 5         \* budget of requests to the remote API: a poll tick
                       \* takes one unit, a get_/cancel_/list_predictions
                       \* tool call takes two
MaxInFlight == 2       \* poll fetches of one job awaiting their response
MaxSends == 1          \* direct notify()/send() calls of the transport's
                       \* caller
MaxRetries == 11       \* largest config.retries a webhook is queued with
MaxAttempts == 6       \* largest max_attempts withRetries is called with
MaxPayload == 3        \* longest payload, in bytes, that is signed

JobIds == {"pred_1"}
DeliveryOrder == <<"w1", "w2">>  \* the ids queueWebhook() draws, in order
DeliveryIds == {DeliveryOrder[i] : i \in DOMAIN DeliveryOrder}
ConnOrder == <<"c1", "c2">>      \* the ids connect() draws, in order
ConnIds == {ConnOrder[i] : i \in DOMAIN ConnOrder}

(***************************************************************************)
(* Program constants.                                                      *)
(***************************************************************************)
CONNECTING == 0
OPEN == 1
CLOSED == 2
MAX_RECONNECT_ATTEMPTS == 5
RECONNECT_CAP == 30000

Starting == "starting"
Processing == "processing"
Succeeded == "succeeded"
Failed == "failed"
Canceled == "canceled"
PredictionStatus == {Starting, Processing, Succeeded, Failed, Canceled}
TerminalStatus == {Succeeded, Failed, Canceled}

\* Markers for a key that is not in a Map / a value that is undefined.
Absent == "absent"
Undefined == "undefined"
NoConnection == -1     \* connections.get(id) is undefined
NoAttempts == -1       \* reconnectAttempts.get(id) is undefined
NoSubs == {Absent}     \* subscriptions.get(id) is undefined
NoTimer == -1
NeverNotified == -2
NoConfig == -2         \* queueWebhook() was not called for the id
NoRetries == -1        \* config.retries is undefined
NoEntry == [retryCount |-> -1, nextAttempt |-> "absent"]
                       \* queue.get(id) is undefined
DEFAULT_RETRIES == 3
HISTORY_LIMIT == 10
NoList == [cached |-> FALSE, list |-> [j \in JobIds |-> Absent]]

VARIABLES
  \* ---- SSEServerTransport ----
  connections,         \* connection id -> readyState of the EventSource
                       \* registered under it, or Absent
  keepAliveIntervals,  \* connection id -> TRUE when an interval is stored
  reconnectAttempts,   \* connection id -> number, or Absent
  subscriptions,       \* connection id -> set of URIs, or Absent
  isConnected,         \* the transport's flag
  reconnectTimer,      \* connection id -> delay of the reconnect() call
                       \* suspended in its backoff wait, or NoTimer
  usedIds,             \* ids already drawn by connect()
  emitted,             \* events the transport emitted to its listeners in
                       \* the last transport step
  received,            \* connection id -> events dispatched to it
  nSent,               \* direct notify()/send() calls so far
  notifiedAt,          \* history: tornDown when notify() was last called
                       \* directly, NeverNotified before
  tornDown,            \* history: number of connections the last
                       \* disconnect() tore down, -1 once connect() has been
                       \* called since (or before any disconnect())
  \* ---- remote API and ReplicateClient ----
  remote,              \* job id -> status at the remote service, or Absent
  clientCache,         \* predictionCache entry "prediction:<id>"
  listCache,           \* predictionCache entry "predictions:all:10:"
  inflight,            \* bag of requests awaiting their response
  \* ---- tool handlers ----
  predictionStatus,    \* cache.predictionStatus
  pollInterval,        \* job id -> TRUE while the setInterval is active
  notifyLog,           \* job id -> notifications passed to transport.notify
  polled,              \* history: job id -> statuses returned to the poller
  spent,               \* budget spent so far
  nCalls,              \* history: tool calls so far
  watchers,            \* history: job id -> connections that were open and
                       \* subscribed to the job's URI when it was created
  failedAt,            \* history: job id -> length of notifyLog when a poll
                       \* fetch last failed, -1 if none did
  \* ---- WebhookService ----
  queue,               \* delivery id -> [retryCount, nextAttempt], or NoEntry;
                       \* nextAttempt is "none" (unset), "later" or "due"
  config,              \* delivery id -> config.retries it was queued with
  urlOk,               \* delivery id -> whether config.url is an absolute URL
  processing,          \* the service's flag
  loopAt,              \* processQueue: "idle", "awaiting" its batch of
                       \* attempts, or "sleeping" until the next due time
  inFlight,            \* delivery id -> the retryCount captured by each
                       \* deliverWebhook call awaiting its fetch
  deliveryResults,     \* delivery id -> recorded results
  timedOut,            \* history: delivery id -> whether its last attempt
                       \* was aborted by its timeout
  scheduledDelay,      \* delivery id -> the delay, in ms, its nextAttempt
                       \* was last set to from the time of the failure
  attemptLog,          \* history: delivery id -> every result ever recorded
  nLoops,              \* history: processQueue calls past their guard that
                       \* have not returned
  \* ---- ErrorHandler.withRetries ----
  options,             \* the options of the running call, or NoOptions
  retryAt,             \* "idle", awaiting the "operation", "waiting" for the
                       \* backoff timer, "resolved" or "rejected"
  attempt,             \* the loop variable
  lastError,           \* the local of that name, or NoValue
  settled,             \* the value the call resolved or rejected with
  invocations,         \* history: calls of operation() in this call
  thrown,              \* history: the value the last operation() threw
  returned,            \* history: the value the last operation() returned
  waits,               \* history: the delays slept, in order
  onRetryLog,          \* history: the arguments of each on_retry call
  \* ---- pure functions of models/webhook.ts ----
  lastCall             \* the last call made and what it returned, or NoCall

transportVars == <<connections, keepAliveIntervals, reconnectAttempts,
                   subscriptions, isConnected, reconnectTimer, usedIds,
                   emitted, tornDown, nSent, notifiedAt>>
pollerVars == <<remote, clientCache, listCache, inflight, predictionStatus,
                pollInterval, notifyLog, polled, spent, nCalls,
                watchers, failedAt>>
webhookVars == <<queue, config, urlOk, processing, loopAt, inFlight,
                 deliveryResults, scheduledDelay, timedOut, attemptLog,
                 nLoops>>
retryVars == <<options, retryAt, attempt, lastError, settled, invocations,
               thrown, returned, waits, onRetryLog>>
utilVars == <<retryVars, lastCall>>
vars == <<transportVars, received, pollerVars, webhookVars, utilVars>>

Min(a, b) == IF a < b THEN a ELSE b

RECURSIVE Pow2(_)
Pow2(n) == IF n = 0 THEN 1 ELSE 2 * Pow2(n - 1)

(***************************************************************************)
(* models/notification.ts                                                  *)
(***************************************************************************)
PredictionUri(id) == "replicate-prediction://" \o id
Uris == {PredictionUri("pred_1"), PredictionUri("pred_2")}
NoUri == "no-uri"

\* A prediction as the handlers see it: id, status, error (FALSE when the
\* field is empty) and the progress marker of its logs (-1 when none).
Prediction(id, status, error, logs) ==
  [id |-> id, status |-> status, error |-> error, logs |-> logs]

createPredictionStatusNotification(prediction, previousStatus) ==
  [method |-> "prediction/status", uri |-> PredictionUri(prediction.id),
   status |-> prediction.status, previous_status |-> previousStatus,
   progress |-> -1]

createPredictionProgressNotification(prediction, progress) ==
  [method |-> "prediction/progress", uri |-> PredictionUri(prediction.id),
   status |-> prediction.status, previous_status |-> Undefined,
   progress |-> progress]

createPredictionErrorNotification(prediction, error) ==
  [method |-> "prediction/error", uri |-> PredictionUri(prediction.id),
   status |-> prediction.status, previous_status |-> Undefined,
   progress |-> -1]

(***************************************************************************)
(* SSEServerTransport                                                      *)
(***************************************************************************)
RegisteredIds == {c \in ConnIds : connections[c] # NoConnection}

\* Mutant of NotifyTargets: the readyState test is missing.
NotifyTargetsAnyState(n) ==
  {c \in ConnIds : /\ subscriptions[c] # NoSubs
                   /\ connections[c] # NoConnection
                   /\ n.uri # NoUri
                   /\ n.uri \in subscriptions[c]}

\* notify(): the connections the notification is dispatched to.
NotifyTargets(n) ==
  {c \in ConnIds : /\ subscriptions[c] # NoSubs
                   /\ connections[c] # NoConnection
                   /\ connections[c] = OPEN
                   /\ n.uri # NoUri
                   /\ n.uri \in subscriptions[c]}

\* Mutant of SendTargets: the readyState test is missing.
SendTargetsAnyState ==
  {c \in ConnIds : connections[c] # NoConnection}

\* send(): the connections the message is dispatched to.
SendTargets ==
  {c \in ConnIds : connections[c] # NoConnection /\ connections[c] = OPEN}

Dispatch(recv, targets, type, data) ==
  [c \in ConnIds |->
     IF c \in targets THEN Append(recv[c], [type |-> type, data |-> data])
                      ELSE recv[c]]

\* transport.notify called once per element of ns, in order.
RECURSIVE NotifyAll(_, _)
NotifyAll(recv, ns) ==
  IF ns = <<>> THEN recv
  ELSE NotifyAll(Dispatch(recv, NotifyTargets(Head(ns)), "notification",
                          Head(ns)),
                 Tail(ns))

\* The transport's tables as one value, for the operations that are
\* composed (disconnect calls cleanupConnection once per connection).
Tables ==
  [connections |-> connections, keepAliveIntervals |-> keepAliveIntervals,
   reconnectAttempts |-> reconnectAttempts, subscriptions |-> subscriptions,
   emitted |-> <<>>]

\* Mutant of cleanupConnection: "disconnected" is emitted without the test
\* that no connection remains.
cleanupConnectionAlwaysEmits(t, c) ==
  [connections |-> [t.connections EXCEPT ![c] = NoConnection],
   keepAliveIntervals |-> [t.keepAliveIntervals EXCEPT ![c] = FALSE],
   reconnectAttempts |-> [t.reconnectAttempts EXCEPT ![c] = NoAttempts],
   subscriptions |-> [t.subscriptions EXCEPT ![c] = NoSubs],
   emitted |-> Append(t.emitted, "disconnected")]

cleanupConnection(t, c) ==
  LET conns == [t.connections EXCEPT ![c] = NoConnection]
  IN [connections |-> conns,
      keepAliveIntervals |-> [t.keepAliveIntervals EXCEPT ![c] = FALSE],
      reconnectAttempts |-> [t.reconnectAttempts EXCEPT ![c] = NoAttempts],
      subscriptions |-> [t.subscriptions EXCEPT ![c] = NoSubs],
      emitted |-> IF \A d \in ConnIds : conns[d] = NoConnection
                  THEN Append(t.emitted, "disconnected")
                  ELSE t.emitted]

RECURSIVE CleanupEach(_, _)
CleanupEach(t, ids) ==
  IF ids = {} THEN t
  ELSE LET c == CHOOSE x \in ids : TRUE
       IN CleanupEach(cleanupConnection(t, c), ids \ {c})

SetTables(t) ==
  /\ connections' = t.connections
  /\ keepAliveIntervals' = t.keepAliveIntervals
  /\ reconnectAttempts' = t.reconnectAttempts
  /\ subscriptions' = t.subscriptions
  /\ emitted' = t.emitted

\* reconnect(): the backoff delay, read after onerror stored the new count.
ReconnectDelay(attempts) == Min(1000 * Pow2(attempts), RECONNECT_CAP)

Connect(c) ==
  /\ Cardinality(usedIds) < Len(ConnOrder)
  /\ c = ConnOrder[Cardinality(usedIds) + 1]
  /\ usedIds' = usedIds \cup {c}
  /\ connections' = [connections EXCEPT ![c] = CONNECTING]
  /\ reconnectAttempts' = [reconnectAttempts EXCEPT ![c] = 0]
  /\ subscriptions' = [subscriptions EXCEPT ![c] = {}]
  /\ keepAliveIntervals' = [keepAliveIntervals EXCEPT ![c] = TRUE]
  /\ emitted' = <<>>
  /\ tornDown' = -1
  /\ UNCHANGED <<isConnected, reconnectTimer, nSent, notifiedAt, received, pollerVars, webhookVars, utilVars>>

\* EventSource.connect() got its response: readyState OPEN, then onopen.
ConnOpen(c) ==
  /\ connections[c] = CONNECTING
  /\ connections' = [connections EXCEPT ![c] = OPEN]
  /\ reconnectAttempts' = [reconnectAttempts EXCEPT ![c] = 0]
  /\ isConnected' = TRUE
  /\ emitted' = <<"connected", "open">>
  /\ UNCHANGED <<keepAliveIntervals, subscriptions, reconnectTimer, usedIds,
                 tornDown, nSent, notifiedAt, received, pollerVars, webhookVars, utilVars>>

\* EventSource.connect() failed while no listener for "error" is registered
\* on the EventSource (the transport registers none): readyState CLOSED,
\* then emit("error") throws out of the catch block, so onerror is not
\* called and the closed EventSource stays registered.
ConnFail(c) ==
  /\ connections[c] \in {CONNECTING, OPEN}
  /\ connections' = [connections EXCEPT ![c] = CLOSED]
  /\ emitted' = <<>>
  /\ UNCHANGED <<keepAliveIntervals, reconnectAttempts, subscriptions,
                 isConnected, reconnectTimer, usedIds, tornDown, nSent,
                 notifiedAt, received, pollerVars, webhookVars, utilVars>>

\* EventSource.connect() failed while a listener for "error" is registered
\* on the EventSource (through addEventListener): readyState CLOSED, the
\* emit returns, then onerror.
ConnError(c) ==
  /\ connections[c] \in {CONNECTING, OPEN}
  /\ LET attempts == IF reconnectAttempts[c] = NoAttempts THEN 0
                     ELSE reconnectAttempts[c]
     IN IF attempts < MAX_RECONNECT_ATTEMPTS
        THEN /\ reconnectAttempts' =
                  [reconnectAttempts EXCEPT ![c] = attempts + 1]
             /\ connections' = [connections EXCEPT ![c] = CLOSED]
             /\ reconnectTimer' =
                  [reconnectTimer EXCEPT ![c] = ReconnectDelay(attempts + 1)]
             /\ emitted' = <<>>
             /\ UNCHANGED <<keepAliveIntervals, subscriptions>>
        ELSE /\ SetTables([cleanupConnection(Tables, c) EXCEPT
                  !.emitted = Append(@, "error")])
             /\ UNCHANGED reconnectTimer
  /\ UNCHANGED <<isConnected, usedIds, tornDown, nSent, notifiedAt, received, pollerVars, webhookVars, utilVars>>

\* Mutant of ReconnectFire: the replacement starts without subscriptions.
ReconnectFireResetsSubscriptions(c) ==
  /\ reconnectTimer[c] # NoTimer
  /\ reconnectTimer' = [reconnectTimer EXCEPT ![c] = NoTimer]
  /\ connections' = [connections EXCEPT ![c] = CONNECTING]
  /\ subscriptions' = [subscriptions EXCEPT ![c] = {}]
  /\ emitted' = <<>>
  /\ UNCHANGED <<keepAliveIntervals, reconnectAttempts,
                 isConnected, usedIds, tornDown, nSent, notifiedAt, received,
                 pollerVars, webhookVars, utilVars>>

\* reconnect() resumes after its wait and registers the replacement.
ReconnectFire(c) ==
  /\ reconnectTimer[c] # NoTimer
  /\ reconnectTimer' = [reconnectTimer EXCEPT ![c] = NoTimer]
  /\ connections' = [connections EXCEPT ![c] = CONNECTING]
  /\ emitted' = <<>>
  /\ UNCHANGED <<keepAliveIntervals, reconnectAttempts, subscriptions,
                 isConnected, usedIds, tornDown, nSent, notifiedAt, received, pollerVars, webhookVars, utilVars>>

\* Mutant of Disconnect: "disconnected" is emitted by every call.
DisconnectAlwaysEmits ==
  /\ isConnected' = FALSE
  /\ SetTables([CleanupEach(Tables, RegisteredIds) EXCEPT
                  !.emitted = <<"disconnected">>])
  /\ tornDown' = Cardinality(RegisteredIds)
  /\ UNCHANGED <<reconnectTimer, usedIds, nSent, notifiedAt, received,
                 pollerVars, webhookVars, utilVars>>

Disconnect ==
  /\ isConnected' = FALSE
  /\ SetTables(CleanupEach(Tables, RegisteredIds))
  /\ tornDown' = Cardinality(RegisteredIds)
  /\ UNCHANGED <<reconnectTimer, usedIds, nSent, notifiedAt, received, pollerVars, webhookVars, utilVars>>

\* Mutant of Subscribe: a missing subscription set is created.
SubscribeCreatesSet(c, u) ==
  /\ subscriptions' = IF subscriptions[c] # NoSubs
                      THEN [subscriptions EXCEPT ![c] = @ \cup {u}]
                      ELSE [subscriptions EXCEPT ![c] = {u}]
  /\ emitted' = <<>>
  /\ UNCHANGED <<connections, keepAliveIntervals, reconnectAttempts,
                 isConnected, reconnectTimer, usedIds, tornDown, nSent,
                 notifiedAt, received, pollerVars, webhookVars, utilVars>>

Subscribe(c, u) ==
  /\ subscriptions' = IF subscriptions[c] # NoSubs
                      THEN [subscriptions EXCEPT ![c] = @ \cup {u}]
                      ELSE subscriptions
  /\ emitted' = <<>>
  /\ UNCHANGED <<connections, keepAliveIntervals, reconnectAttempts,
                 isConnected, reconnectTimer, usedIds, tornDown, nSent, notifiedAt, received,
                 pollerVars, webhookVars, utilVars>>

\* Mutant of Unsubscribe: the whole subscription set is cleared.
UnsubscribeClears(c, u) ==
  /\ subscriptions' = IF subscriptions[c] # NoSubs
                      THEN [subscriptions EXCEPT ![c] = {}]
                      ELSE subscriptions
  /\ emitted' = <<>>
  /\ UNCHANGED <<connections, keepAliveIntervals, reconnectAttempts,
                 isConnected, reconnectTimer, usedIds, tornDown, nSent,
                 notifiedAt, received, pollerVars, webhookVars, utilVars>>

Unsubscribe(c, u) ==
  /\ subscriptions' = IF subscriptions[c] # NoSubs
                      THEN [subscriptions EXCEPT ![c] = @ \ {u}]
                      ELSE subscriptions
  /\ emitted' = <<>>
  /\ UNCHANGED <<connections, keepAliveIntervals, reconnectAttempts,
                 isConnected, reconnectTimer, usedIds, tornDown, nSent, notifiedAt, received,
                 pollerVars, webhookVars, utilVars>>

\* A notification built by the transport's caller for resource u.
ResourceNotification(u) ==
  [method |-> "resource/updated", uri |-> u, status |-> Undefined,
   previous_status |-> Undefined, progress |-> -1]

Notify(u) ==
  /\ nSent < MaxSends
  /\ nSent' = nSent + 1
  /\ notifiedAt' = tornDown
  /\ received' = NotifyAll(received, <<ResourceNotification(u)>>)
  /\ emitted' = <<>>
  /\ UNCHANGED <<connections, keepAliveIntervals, reconnectAttempts,
                 subscriptions, isConnected, reconnectTimer, usedIds,
                 tornDown, pollerVars, webhookVars, utilVars>>

Send ==
  /\ nSent < MaxSends
  /\ nSent' = nSent + 1
  /\ received' = Dispatch(received, SendTargets, "message", "msg")
  /\ emitted' = <<>>
  /\ UNCHANGED notifiedAt
  /\ UNCHANGED <<connections, keepAliveIntervals, reconnectAttempts,
                 subscriptions, isConnected, reconnectTimer, usedIds,
                 tornDown, pollerVars, webhookVars, utilVars>>

(***************************************************************************)
(* Remote job API (environment) and ReplicateClient with its cache         *)
(***************************************************************************)
LogMarks == {-1, 30}   \* "progress: N%" marker found in the logs, -1 if none

\* The response to a request about job j / to a list request, taken from
\* the remote state when the request is served.
Snapshot(j) == [k \in JobIds |-> IF k = j THEN remote[k] ELSE Absent]
ListSnapshot == remote

Request(kind, j, snap) == [kind |-> kind, job |-> j, snap |-> snap]
Pending(kind, j) ==
  {r \in BagToSet(inflight) : r.kind = kind /\ r.job = j}
PollsInFlight(j) ==
  LET rs == Pending("poll", j)
      RECURSIVE Count(_)
      Count(S) == IF S = {} THEN 0
                  ELSE LET r == CHOOSE x \in S : TRUE
                       IN CopiesIn(r, inflight) + Count(S \ {r})
  IN Count(rs)
counters == <<spent, nCalls>>
CountPoll ==
  /\ spent + 1 <= MaxBudget
  /\ spent' = spent + 1
  /\ UNCHANGED nCalls
CountCall ==
  /\ spent + 2 <= MaxBudget
  /\ spent' = spent + 2
  /\ nCalls' = nCalls + 1
Take(r) == inflight (-) SetToBag({r})
Put(r) == inflight (+) SetToBag({r})

\* The remote job moves through its state machine on its own.
RemoteAdvance(j) ==
  /\ remote[j] \in {Starting, Processing}
  /\ \E s \in PredictionStatus :
       /\ \/ remote[j] = Starting /\ s # Starting
          \/ remote[j] = Processing /\ s \in TerminalStatus
       /\ remote' = [remote EXCEPT ![j] = s]
  /\ UNCHANGED <<utilVars, webhookVars, transportVars, received, clientCache, listCache, inflight,
                 predictionStatus, pollInterval, notifyLog, polled, counters,
                 watchers, failedAt>>

\* The one-minute TTL of a predictionCache entry runs out.
ExpirePrediction(j) ==
  /\ clientCache[j] # Absent
  /\ clientCache' = [clientCache EXCEPT ![j] = Absent]
  /\ UNCHANGED <<utilVars, webhookVars, transportVars, received, remote, listCache, inflight,
                 predictionStatus, pollInterval, notifyLog, polled, counters,
                 watchers, failedAt>>

ExpireList ==
  /\ listCache.cached
  /\ listCache' = NoList
  /\ UNCHANGED <<utilVars, webhookVars, transportVars, received, remote, clientCache, inflight,
                 predictionStatus, pollInterval, notifyLog, polled, counters,
                 watchers, failedAt>>

\* getPredictionStatus answers from the cache only for completed predictions.
CacheHit(j) == clientCache[j] \in TerminalStatus

\* getPredictionStatus stores completed predictions in the cache.
CacheCompleted(j, st) ==
  IF st \in TerminalStatus THEN [clientCache EXCEPT ![j] = st]
  ELSE clientCache

(***************************************************************************)
(* Tool handlers                                                           *)
(***************************************************************************)
estimateProgress(prediction) ==
  IF prediction.status = Succeeded THEN 100
  ELSE IF prediction.status \in {Failed, Canceled} THEN 0
  ELSE IF prediction.status = Starting THEN 0
  ELSE IF prediction.logs # -1 THEN prediction.logs
  ELSE IF prediction.status = Processing THEN 50 ELSE 0

\* The fields of a response that the remote state does not fix.
ErrorChoices(st) == IF st = Failed THEN BOOLEAN ELSE {FALSE}
LogChoices(st) == IF st = Processing THEN LogMarks ELSE {-1}

Emit(j, notes) ==
  /\ notifyLog' = [notifyLog EXCEPT ![j] = @ \o notes]
  /\ received' = NotifyAll(received, notes)

\* handleCreatePrediction: create the job, record its status, send the
\* initial status notification, start the interval.
CreatePrediction(j) ==
  /\ remote[j] = Absent
  /\ remote' = [remote EXCEPT ![j] = Starting]
  /\ clientCache' = [clientCache EXCEPT ![j] = Starting]
  /\ LET prediction == Prediction(j, Starting, FALSE, -1)
     IN /\ predictionStatus' = [predictionStatus EXCEPT ![j] =
                                  prediction.status]
        /\ Emit(j, <<createPredictionStatusNotification(prediction,
                                                        Starting)>>)
  /\ pollInterval' = [pollInterval EXCEPT ![j] = TRUE]
  /\ watchers' = [watchers EXCEPT ![j] =
                    {c \in ConnIds : /\ connections[c] = OPEN
                                     /\ subscriptions[c] # NoSubs
                                     /\ PredictionUri(j) \in subscriptions[c]}]
  /\ UNCHANGED <<utilVars, webhookVars, transportVars, listCache, inflight, polled, counters,
                 failedAt>>

\* The notifications of one run of the interval callback after its fetch
\* returned updatedPrediction.
PollNotes(updatedPrediction, previousStatus) ==
  IF previousStatus # Undefined /\ updatedPrediction.status # previousStatus
  THEN <<createPredictionStatusNotification(updatedPrediction,
                                            previousStatus)>>
       \o (IF updatedPrediction.status = Processing
           THEN <<createPredictionProgressNotification(updatedPrediction,
                     estimateProgress(updatedPrediction))>>
           ELSE <<>>)
       \o (IF updatedPrediction.status = Failed /\ updatedPrediction.error
           THEN <<createPredictionErrorNotification(updatedPrediction,
                                                    TRUE)>>
           ELSE <<>>)
  ELSE <<>>

\* clearInterval(pollInterval) of the callback.
PollStops(updatedPrediction, previousStatus) ==
  /\ previousStatus # Undefined
  /\ updatedPrediction.status # previousStatus
  /\ updatedPrediction.status \in TerminalStatus

\* The interval callback from the point where its fetch returned st.
PollBody(j, st) ==
  \E err \in ErrorChoices(st), lg \in LogChoices(st) :
    LET updatedPrediction == Prediction(j, st, err, lg)
        previousStatus == predictionStatus[j]
        notes == PollNotes(updatedPrediction, previousStatus)
    IN /\ predictionStatus' =
            IF notes # <<>> THEN [predictionStatus EXCEPT ![j] = st]
            ELSE predictionStatus
       /\ Emit(j, notes)
       /\ pollInterval' =
            IF PollStops(updatedPrediction, previousStatus)
            THEN [pollInterval EXCEPT ![j] = FALSE] ELSE pollInterval
       /\ polled' = [polled EXCEPT ![j] = Append(@, st)]

\* A tick of the interval whose getPredictionStatus goes to the network.
PollTick(j) ==
  /\ pollInterval[j]
  /\ CountPoll
  /\ PollsInFlight(j) < MaxInFlight
  /\ ~CacheHit(j)
  /\ inflight' = Put(Request("poll", j, Snapshot(j)))
  /\ UNCHANGED <<utilVars, webhookVars, transportVars, received, remote, clientCache, listCache,
                 predictionStatus, pollInterval, notifyLog, polled,
                 watchers, failedAt>>

\* A tick of the interval whose getPredictionStatus is answered from the
\* client's cache.
PollTickCached(j) ==
  /\ pollInterval[j]
  /\ CountPoll
  /\ CacheHit(j)
  /\ PollBody(j, clientCache[j])
  /\ UNCHANGED <<utilVars, webhookVars, transportVars, remote, clientCache, listCache, inflight,
                 watchers, failedAt>>

\* The fetch of a tick returns.
PollComplete(j) ==
  \E r \in Pending("poll", j) :
    /\ inflight' = Take(r)
    /\ clientCache' = CacheCompleted(j, r.snap[j])
    /\ PollBody(j, r.snap[j])
    /\ UNCHANGED <<utilVars, webhookVars, transportVars, remote, listCache, counters, watchers, failedAt>>

\* Mutant of PollFail: the catch also stops the interval.
PollFailStopsInterval(j) ==
  \E r \in Pending("poll", j) :
    /\ inflight' = Take(r)
    /\ failedAt' = [failedAt EXCEPT ![j] = Len(notifyLog[j])]
    /\ pollInterval' = [pollInterval EXCEPT ![j] = FALSE]
    /\ UNCHANGED <<utilVars, webhookVars, transportVars, received, remote, clientCache, listCache,
                   predictionStatus, notifyLog, polled, counters, watchers>>

\* The fetch of a tick throws: the callback's catch logs the error.
PollFail(j) ==
  \E r \in Pending("poll", j) :
    /\ inflight' = Take(r)
    /\ failedAt' = [failedAt EXCEPT ![j] = Len(notifyLog[j])]
    /\ UNCHANGED <<utilVars, webhookVars, transportVars, received, remote, clientCache, listCache,
                   predictionStatus, pollInterval, notifyLog, polled,
                   counters, watchers>>

\* The notifications of handleGetPrediction / of one round of the loop of
\* handleListPredictions.
GetNotes(prediction, previousStatus) ==
  IF previousStatus # Undefined /\ prediction.status # previousStatus
  THEN <<createPredictionStatusNotification(prediction, previousStatus)>>
       \o (IF prediction.status = Failed /\ prediction.error
           THEN <<createPredictionErrorNotification(prediction, TRUE)>>
           ELSE <<>>)
  ELSE <<>>

\* handleGetPrediction from the point where its fetch returned st.
GetBody(j, st) ==
  \E err \in ErrorChoices(st) :
    LET prediction == Prediction(j, st, err, -1)
        previousStatus == predictionStatus[j]
    IN /\ predictionStatus' = [predictionStatus EXCEPT ![j] = st]
       /\ Emit(j, GetNotes(prediction, previousStatus))

GetStart(j) ==
  /\ remote[j] # Absent
  /\ CountCall
  /\ ~CacheHit(j)
  /\ inflight' = Put(Request("get", j, Snapshot(j)))
  /\ UNCHANGED <<utilVars, webhookVars, transportVars, received, remote, clientCache, listCache,
                 predictionStatus, pollInterval, notifyLog, polled, watchers, failedAt>>

GetCached(j) ==
  /\ remote[j] # Absent
  /\ CountCall
  /\ CacheHit(j)
  /\ GetBody(j, clientCache[j])
  /\ UNCHANGED <<utilVars, webhookVars, transportVars, remote, clientCache, listCache, inflight,
                 pollInterval, polled, watchers, failedAt>>

GetComplete(j) ==
  \E r \in Pending("get", j) :
    /\ inflight' = Take(r)
    /\ clientCache' = CacheCompleted(j, r.snap[j])
    /\ GetBody(j, r.snap[j])
    /\ UNCHANGED <<utilVars, webhookVars, transportVars, remote, listCache, pollInterval, polled,
                   counters, watchers, failedAt>>

\* handleCancelPrediction: the request reaches the remote service, which
\* cancels a job that has not completed and answers with the job.
CancelStart(j) ==
  /\ remote[j] # Absent
  /\ CountCall
  /\ LET st == IF remote[j] \in TerminalStatus THEN remote[j] ELSE Canceled
     IN /\ remote' = [remote EXCEPT ![j] = st]
        /\ inflight' = Put(Request("cancel", j,
                             [k \in JobIds |-> IF k = j THEN st ELSE Absent]))
  /\ UNCHANGED <<utilVars, webhookVars, transportVars, received, clientCache, listCache,
                 predictionStatus, pollInterval, notifyLog, polled, watchers, failedAt>>

CancelNotes(prediction, previousStatus) ==
  IF previousStatus # Undefined
  THEN <<createPredictionStatusNotification(prediction, previousStatus)>>
  ELSE <<>>

CancelComplete(j) ==
  \E r \in Pending("cancel", j) :
    LET prediction == Prediction(j, r.snap[j], FALSE, -1)
        previousStatus == predictionStatus[j]
    IN /\ inflight' = Take(r)
       /\ clientCache' = [clientCache EXCEPT ![j] = prediction.status]
       /\ predictionStatus' = [predictionStatus EXCEPT ![j] =
                                 prediction.status]
       /\ Emit(j, CancelNotes(prediction, previousStatus))
       /\ UNCHANGED <<utilVars, webhookVars, transportVars, remote, listCache, pollInterval, polled,
                   counters, watchers, failedAt>>

\* The loop of handleListPredictions over the predictions of the list: the
\* pair of the status table and the notifications after the jobs in js.
RECURSIVE ListLoop(_, _, _, _)
ListLoop(list, js, table, notes) ==
  IF js = {} THEN <<table, notes>>
  ELSE LET j == CHOOSE x \in js : TRUE
           prediction == Prediction(j, list[j], FALSE, -1)
       IN ListLoop(list, js \ {j},
                   [table EXCEPT ![j] = prediction.status],
                   [notes EXCEPT ![j] = GetNotes(prediction, table[j])])

ListBody(list) ==
  LET res == ListLoop(list, {j \in JobIds : list[j] # Absent},
                      predictionStatus, [j \in JobIds |-> <<>>])
      order == CHOOSE sq \in [1..Cardinality(JobIds) -> JobIds] :
                 \A j \in JobIds : \E i \in DOMAIN sq : sq[i] = j
      RECURSIVE Flat(_)
      Flat(i) == IF i > Len(order) THEN <<>>
                 ELSE res[2][order[i]] \o Flat(i + 1)
  IN /\ predictionStatus' = res[1]
     /\ notifyLog' = [j \in JobIds |-> notifyLog[j] \o res[2][j]]
     /\ received' = NotifyAll(received, Flat(1))

ListStart ==
  /\ CountCall
  /\ ~listCache.cached
  /\ inflight' = Put(Request("list", "all", ListSnapshot))
  /\ UNCHANGED <<utilVars, webhookVars, transportVars, received, remote, clientCache, listCache,
                 predictionStatus, pollInterval, notifyLog, polled, watchers, failedAt>>

ListCached ==
  /\ CountCall
  /\ listCache.cached
  /\ ListBody(listCache.list)
  /\ UNCHANGED <<utilVars, webhookVars, transportVars, remote, clientCache, listCache, inflight,
                 pollInterval, polled, watchers, failedAt>>

ListComplete ==
  \E r \in Pending("list", "all") :
    /\ inflight' = Take(r)
    /\ listCache' = [cached |-> TRUE, list |-> r.snap]
    /\ ListBody(r.snap)
    /\ UNCHANGED <<utilVars, webhookVars, transportVars, remote, clientCache, pollInterval, polled,
                   counters, watchers, failedAt>>

\* The request of a tool call throws: the handler returns an error result.
CallFail ==
  \E r \in BagToSet(inflight) :
    /\ r.kind \in {"get", "cancel", "list"}
    /\ inflight' = Take(r)
    /\ UNCHANGED <<utilVars, webhookVars, transportVars, received, remote, clientCache, listCache,
                   predictionStatus, pollInterval, notifyLog, polled, counters,
                 watchers, failedAt>>

(***************************************************************************)
(* WebhookService                                                          *)
(***************************************************************************)
RetryChoices == {NoRetries, 0, 2, MaxRetries}

\* config.retries ?? DEFAULT_WEBHOOK_CONFIG.retries ?? 3
maxRetriesOf(cfg) == IF cfg = NoRetries THEN DEFAULT_RETRIES ELSE cfg

\* Mutant of shouldRetry: the retry test admits retryCount = maxRetries.
shouldRetryInclusive(ok, retryCount, cfg) ==
  ~ok /\ retryCount <= maxRetriesOf(cfg)

\* deliverWebhook: the test that schedules a retry.
shouldRetry(ok, retryCount, cfg) ==
  ~ok /\ retryCount < maxRetriesOf(cfg)

\* Mutant of settle: a delivered webhook stays in the queue.
settleKeepsDelivered(entry, ok, retryCount, cfg) ==
  IF entry = NoEntry THEN NoEntry
  ELSE IF shouldRetry(ok, retryCount, cfg)
       THEN [retryCount |-> entry.retryCount + 1, nextAttempt |-> "later"]
       ELSE IF ok THEN entry ELSE NoEntry

\* deliverWebhook after its fetch: the queue entry of the webhook, which has
\* its retry scheduled or is deleted.
settle(entry, ok, retryCount, cfg) ==
  IF entry = NoEntry THEN NoEntry
  ELSE IF shouldRetry(ok, retryCount, cfg)
       THEN [retryCount |-> entry.retryCount + 1, nextAttempt |-> "later"]
       ELSE NoEntry

\* Math.random() * 1000, by its extremes.
RetryJitter == {0, 999}

\* Mutant of calculateRetryDelay: the delay does not grow.
calculateRetryDelayFlat(n, rnd) == Min(1000, 60000) + rnd

\* calculateRetryDelay(attempt), baseDelay 1000; rnd is the jitter drawn.
calculateRetryDelay(n, rnd) == Min(1000 * Pow2(n), 60000) + rnd

\* Mutant of recordDeliveryResult: the newest results are dropped.
recordDeliveryResultKeepsOldest(results, result) ==
  LET all == Append(results, result)
  IN IF Len(all) > HISTORY_LIMIT THEN SubSeq(all, 1, HISTORY_LIMIT) ELSE all

recordDeliveryResult(results, result) ==
  LET all == Append(results, result)
  IN IF Len(all) > HISTORY_LIMIT
     THEN SubSeq(all, Len(all) - HISTORY_LIMIT + 1, Len(all))
     ELSE all

getDeliveryResults(d) == deliveryResults[d]

\* processQueue: the webhooks the filter of an iteration selects.
readyWebhooks(q) ==
  {d \in DeliveryIds : q[d] # NoEntry /\ q[d].nextAttempt \in {"none", "due"}}

\* Mutant of batchDone: the loop continues after any one attempt.
batchDoneAny(fl) == TRUE

\* Promise.all over the attempts of the iteration has resolved.
batchDone(fl) == \A d \in DeliveryIds : fl[d] = <<>>

\* Mutant of ProcessIteration: the loop returns when no webhook is ready.
ProcessIterationReturnsEarly(q, fl) ==
  IF readyWebhooks(q) = {}
  THEN /\ processing' = FALSE
       /\ loopAt' = "idle"
       /\ nLoops' = nLoops - 1
       /\ inFlight' = fl
  ELSE /\ processing' = TRUE
       /\ UNCHANGED nLoops
       /\ loopAt' = "awaiting"
       /\ inFlight' = [d \in DeliveryIds |->
                         IF d \in readyWebhooks(q)
                         THEN Append(fl[d], q[d].retryCount)
                         ELSE fl[d]]

\* processQueue from the top of its while loop, with queue q and attempts fl
\* in flight, up to its next await or its return.
ProcessIteration(q, fl) ==
  IF \A d \in DeliveryIds : q[d] = NoEntry
  THEN /\ processing' = FALSE
       /\ loopAt' = "idle"
       /\ nLoops' = nLoops - 1
       /\ inFlight' = fl
  ELSE /\ processing' = TRUE
       /\ UNCHANGED nLoops
       /\ IF readyWebhooks(q) = {}
          THEN /\ loopAt' = "sleeping"
               /\ inFlight' = fl
          ELSE /\ loopAt' = "awaiting"
               /\ inFlight' = [d \in DeliveryIds |->
                                 IF d \in readyWebhooks(q)
                                 THEN Append(fl[d], q[d].retryCount)
                                 ELSE fl[d]]

\* Mutant of QueueWebhook: the loop is started whatever the flag says.
QueueWebhookAlwaysStarts(d, n, u) ==
  /\ Cardinality({x \in DeliveryIds : config[x] # NoConfig})
       < Len(DeliveryOrder)
  /\ d = DeliveryOrder[Cardinality({x \in DeliveryIds :
                                      config[x] # NoConfig}) + 1]
  /\ config' = [config EXCEPT ![d] = n]
  /\ urlOk' = [urlOk EXCEPT ![d] = u]
  /\ LET q == [queue EXCEPT ![d] = [retryCount |-> 0, nextAttempt |-> "none"]]
     IN /\ queue' = q
        /\ processing' = TRUE
        /\ nLoops' = nLoops + 1
        /\ loopAt' = "awaiting"
        /\ inFlight' = [x \in DeliveryIds |->
                          IF x \in readyWebhooks(q)
                          THEN Append(inFlight[x], q[x].retryCount)
                          ELSE inFlight[x]]
  /\ UNCHANGED <<deliveryResults, scheduledDelay, timedOut, attemptLog>>
  /\ UNCHANGED <<transportVars, received, pollerVars, utilVars>>

\* queueWebhook(config, event) with config.retries = n and a config.url that
\* is an absolute URL iff u; the config is stored as given. When the flag is
\* clear, processQueue runs up to its first await within the call.
QueueWebhook(d, n, u) ==
  /\ Cardinality({x \in DeliveryIds : config[x] # NoConfig})
       < Len(DeliveryOrder)
  /\ d = DeliveryOrder[Cardinality({x \in DeliveryIds :
                                      config[x] # NoConfig}) + 1]
  /\ config' = [config EXCEPT ![d] = n]
  /\ urlOk' = [urlOk EXCEPT ![d] = u]
  /\ LET q == [queue EXCEPT ![d] = [retryCount |-> 0, nextAttempt |-> "none"]]
     IN /\ queue' = q
        /\ IF ~processing
           THEN /\ processing' = TRUE
                /\ nLoops' = nLoops + 1
                /\ loopAt' = "awaiting"
                /\ inFlight' = [x \in DeliveryIds |->
                                  IF x \in readyWebhooks(q)
                                  THEN Append(inFlight[x], q[x].retryCount)
                                  ELSE inFlight[x]]
           ELSE UNCHANGED <<processing, nLoops, loopAt, inFlight>>
  /\ UNCHANGED <<deliveryResults, scheduledDelay, timedOut, attemptLog>>
  /\ UNCHANGED <<transportVars, received, pollerVars, utilVars>>

\* deliverWebhook after its fetch settled: the result is recorded, the
\* webhook is rescheduled or deleted, and when this was the last attempt of
\* the batch processQueue goes on.
Deliver(d, ok) ==
  LET retryCount == Head(inFlight[d])
      result == [success |-> ok, retryCount |-> retryCount]
      q == [queue EXCEPT ![d] = settle(@, ok, retryCount, config[d])]
      fl == [inFlight EXCEPT ![d] = Tail(@)]
  IN /\ deliveryResults' =
          [deliveryResults EXCEPT ![d] = recordDeliveryResult(@, result)]
     /\ attemptLog' = [attemptLog EXCEPT ![d] = Append(@, result)]
     /\ queue' = q
     /\ IF q[d] # NoEntry
        THEN \E rnd \in RetryJitter :
               scheduledDelay' =
                 [scheduledDelay EXCEPT
                    ![d] = calculateRetryDelay(retryCount, rnd)]
        ELSE UNCHANGED scheduledDelay
     /\ IF batchDone(fl)
        THEN ProcessIteration(q, fl)
        ELSE /\ inFlight' = fl
             /\ UNCHANGED <<processing, loopAt, nLoops>>
     /\ UNCHANGED <<config, urlOk>>
     /\ UNCHANGED <<transportVars, received, pollerVars, utilVars>>

\* The fetch of an attempt returned a response, ok or not; fetch() of a
\* string that is no absolute URL rejects and never responds.
AttemptResponds(d, ok) ==
  /\ inFlight[d] # <<>>
  /\ urlOk[d]
  /\ timedOut' = [timedOut EXCEPT ![d] = FALSE]
  /\ Deliver(d, ok)

\* The fetch of an attempt rejected (invalid URL, network error).
AttemptThrows(d) ==
  /\ inFlight[d] # <<>>
  /\ timedOut' = [timedOut EXCEPT ![d] = FALSE]
  /\ Deliver(d, FALSE)

\* Mutant of AttemptTimesOut: an aborted attempt is recorded and the webhook
\* is dropped without a retry.
AttemptTimesOutDrops(d) ==
  /\ inFlight[d] # <<>>
  /\ urlOk[d]
  /\ timedOut' = [timedOut EXCEPT ![d] = TRUE]
  /\ LET retryCount == Head(inFlight[d])
         result == [success |-> FALSE, retryCount |-> retryCount]
         q == [queue EXCEPT ![d] = NoEntry]
         fl == [inFlight EXCEPT ![d] = Tail(@)]
     IN /\ deliveryResults' =
             [deliveryResults EXCEPT ![d] = recordDeliveryResult(@, result)]
        /\ attemptLog' = [attemptLog EXCEPT ![d] = Append(@, result)]
        /\ queue' = q
        /\ IF batchDone(fl)
           THEN ProcessIteration(q, fl)
           ELSE /\ inFlight' = fl
                /\ UNCHANGED <<processing, loopAt, nLoops>>
  /\ UNCHANGED <<config, urlOk, scheduledDelay>>
  /\ UNCHANGED <<transportVars, received, pollerVars, utilVars>>

\* config.timeout elapsed while the fetch of an attempt was pending: the
\* timer aborts the controller, fetch rejects, and the catch branch runs.
AttemptTimesOut(d) ==
  /\ inFlight[d] # <<>>
  /\ urlOk[d]
  /\ timedOut' = [timedOut EXCEPT ![d] = TRUE]
  /\ Deliver(d, FALSE)

\* The clock reaches the nextAttempt of a rescheduled webhook.
BecomeDue(d) ==
  /\ queue[d] # NoEntry
  /\ queue[d].nextAttempt = "later"
  /\ queue' = [queue EXCEPT ![d].nextAttempt = "due"]
  /\ UNCHANGED <<config, urlOk, processing, loopAt, inFlight,
                 deliveryResults, scheduledDelay, timedOut, attemptLog,
                 nLoops>>
  /\ UNCHANGED <<transportVars, received, pollerVars, utilVars>>

\* The timer processQueue sleeps on fires, at the earliest nextAttempt.
WakeUp ==
  /\ loopAt = "sleeping"
  /\ \E d \in DeliveryIds : queue[d] # NoEntry /\ queue[d].nextAttempt = "due"
  /\ ProcessIteration(queue, inFlight)
  /\ UNCHANGED <<queue, config, urlOk, deliveryResults, scheduledDelay,
                 timedOut, attemptLog>>
  /\ UNCHANGED <<transportVars, received, pollerVars, utilVars>>

(***************************************************************************)
(* ErrorHandler: withRetries, getBackoffDelay, isRetryable                 *)
(***************************************************************************)
NoOptions == [max_attempts |-> 0, retry_if |-> "never",
              backoff |-> [min_delay |-> 0, max_delay |-> 0, factor |-> 0,
                           jitter |-> FALSE]]
NoValue == [isError |-> FALSE, class |-> "undefined", status |-> 0,
            message |-> "", retryAfter |-> 0]
NoCall == [fn |-> "none"]

\* What an operation may throw: two Error instances and a value that is none.
\* retryAfter is the delay, in seconds, a rate-limit error carries.
RateLimited == [isError |-> TRUE, class |-> "RateLimitExceeded",
                status |-> 429, message |-> "Rate limit exceeded",
                retryAfter |-> 60]
NotFound == [isError |-> TRUE, class |-> "APIError", status |-> 404,
             message |-> "Not found", retryAfter |-> 0]
ThrownString == [isError |-> FALSE, class |-> "string", status |-> 0,
                 message |-> "oops", retryAfter |-> 0]
ThrownValues == {RateLimited, NotFound, ThrownString}

\* What an operation may return.
ReturnValues == {[isError |-> FALSE, class |-> "object", status |-> 0,
                  message |-> m, retryAfter |-> 0] : m \in {"r1", "r2"}}

retryableStatusCodes == {408, 429, 500, 502, 503, 504}

\* ErrorHandler.isRetryable
isRetryable(error) ==
  \/ error.class = "RateLimitExceeded"
  \/ error.class = "APIError" /\ error.status \in retryableStatusCodes
  \/ error.class = "TimeoutError"

\* error instanceof Error ? error : new Error(String(error))
toError(error) ==
  IF error.isError
  THEN error
  ELSE [isError |-> TRUE, class |-> "Error", status |-> 0,
        message |-> error.message, retryAfter |-> 0]

\* The retry_if option: the default, or a caller's predicate.
RetryPredicates == {"isRetryable", "always", "never"}
retry_if(p, error) ==
  CASE p = "isRetryable" -> isRetryable(error)
    [] p = "always" -> TRUE
    [] OTHER -> FALSE

RECURSIVE Pow(_, _)
Pow(b, e) == IF e = 0 THEN 1 ELSE b * Pow(b, e - 1)


\* The delay options a caller passes: those of the documented example, the
\* defaults, and a steeper curve.
BackoffChoices ==
  {[min_delay |-> 1000, max_delay |-> 10000, factor |-> 2, jitter |-> FALSE],
   [min_delay |-> 1000, max_delay |-> 30000, factor |-> 2, jitter |-> TRUE],
   [min_delay |-> 100, max_delay |-> 1000, factor |-> 3, jitter |-> FALSE]}

\* Math.random() * min_delay, by its extremes.
JitterChoices(o) == IF o.jitter THEN {0, o.min_delay - 1} ELSE {0}

\* Mutant of getBackoffDelay: the delay is not capped.
getBackoffDelayUncapped(n, o, rnd) ==
  LET delay == o.min_delay * Pow(o.factor, n)
  IN IF o.jitter THEN delay + rnd ELSE delay

\* ErrorHandler.getBackoffDelay(attempt, options); rnd is the jitter drawn.
getBackoffDelay(n, o, rnd) ==
  LET delay == o.min_delay * Pow(o.factor, n)
  IN Min(IF o.jitter THEN delay + rnd ELSE delay, o.max_delay)

\* Mutant of lastAttempt: the loop gives up one attempt early.
lastAttemptEarly(n, o) == n >= o.max_attempts - 2

\* attempt === max_attempts - 1
lastAttempt(n, o) == n = o.max_attempts - 1

\* Mutant of giveUp: the predicate is not consulted.
giveUpIgnoresPredicate(n, o, error) == lastAttempt(n, o)

\* attempt === max_attempts - 1 || !retry_if(lastError)
giveUp(n, o, error) == lastAttempt(n, o) \/ ~retry_if(o.retry_if, error)

\* withRetries(operation, options): the loop runs to its first await with
\* operation() called once. Calls share no state, so one call is followed.
WithRetries(o) ==
  /\ retryAt = "idle"
  /\ options' = o
  /\ retryAt' = "operation"
  /\ attempt' = 0
  /\ invocations' = 1
  /\ lastError' = NoValue
  /\ settled' = NoValue
  /\ thrown' = NoValue
  /\ returned' = NoValue
  /\ waits' = <<>>
  /\ onRetryLog' = <<>>
  /\ UNCHANGED <<transportVars, received, pollerVars, webhookVars, lastCall>>

\* operation() resolved with v: withRetries returns it.
OperationResolves(v) ==
  /\ retryAt = "operation"
  /\ returned' = v
  /\ settled' = v
  /\ retryAt' = "resolved"
  /\ UNCHANGED <<options, attempt, lastError, invocations, thrown, waits,
                 onRetryLog>>
  /\ UNCHANGED <<transportVars, received, pollerVars, webhookVars, lastCall>>

\* operation() rejected with e: the catch block, up to its throw or to the
\* await of the backoff timer; rnd is the jitter drawn for the delay.
OperationRejects(e, rnd) ==
  /\ retryAt = "operation"
  /\ thrown' = e
  /\ lastError' = toError(e)
  /\ IF giveUp(attempt, options, toError(e))
     THEN /\ rnd = 0
          /\ settled' = toError(e)
          /\ retryAt' = "rejected"
          /\ UNCHANGED <<waits, onRetryLog>>
     ELSE /\ rnd \in JitterChoices(options.backoff)
          /\ waits' = Append(waits,
                             getBackoffDelay(attempt, options.backoff, rnd))
          /\ onRetryLog' = Append(onRetryLog,
                                  [error |-> toError(e), attempt |-> attempt])
          /\ retryAt' = "waiting"
          /\ UNCHANGED settled
  /\ UNCHANGED <<options, attempt, invocations, returned>>
  /\ UNCHANGED <<transportVars, received, pollerVars, webhookVars, lastCall>>

\* Mutant of TimerFires: the next iteration calls operation() twice.
TimerFiresInvokesTwice ==
  /\ retryAt = "waiting"
  /\ attempt' = attempt + 1
  /\ invocations' = invocations + 2
  /\ retryAt' = "operation"
  /\ UNCHANGED <<options, lastError, settled, thrown, returned, waits,
                 onRetryLog>>
  /\ UNCHANGED <<transportVars, received, pollerVars, webhookVars, lastCall>>

\* The backoff timer fires: attempt++ and the next iteration calls
\* operation().
TimerFires ==
  /\ retryAt = "waiting"
  /\ attempt' = attempt + 1
  /\ invocations' = invocations + 1
  /\ retryAt' = "operation"
  /\ UNCHANGED <<options, lastError, settled, thrown, returned, waits,
                 onRetryLog>>
  /\ UNCHANGED <<transportVars, received, pollerVars, webhookVars, lastCall>>

\* The errors the client's requests fail with: the error classes, an
\* APIError for every 4xx and 5xx status, and what fetch() itself rejects
\* with (a TypeError for a network failure, a DOMException when
\* AbortSignal.timeout fires).
ErrorOf(class, status) ==
  [isError |-> TRUE, class |-> class, status |-> status, message |-> class,
   retryAfter |-> IF class = "RateLimitExceeded" THEN 60 ELSE 0]

RequestErrors ==
  {ErrorOf("APIError", st) : st \in 400..599}
    \cup {ErrorOf(c, 0) : c \in {"RateLimitExceeded", "AuthenticationError",
                                 "NotFoundError", "ValidationError",
                                 "PredictionError", "TimeoutError",
                                 "TypeError", "DOMException"}}

\* A call of ErrorHandler.isRetryable; one call is followed.
IsRetryable(error) ==
  /\ lastCall = NoCall
  /\ lastCall' = [fn |-> "isRetryable", error |-> error,
                  result |-> isRetryable(error)]
  /\ UNCHANGED <<transportVars, received, pollerVars, webhookVars, retryVars>>

\* The options withRetries is called with.
RetryOptions ==
  [max_attempts : 1..MaxAttempts, retry_if : RetryPredicates,
   backoff : BackoffChoices]

AllJitter == UNION {JitterChoices(o) : o \in BackoffChoices}

InitRetry ==
  /\ options = NoOptions
  /\ retryAt = "idle"
  /\ attempt = 0
  /\ lastError = NoValue
  /\ settled = NoValue
  /\ invocations = 0
  /\ thrown = NoValue
  /\ returned = NoValue
  /\ waits = <<>>
  /\ onRetryLog = <<>>

InitCalls == lastCall = NoCall

(***************************************************************************)
(* models/webhook.ts: validateWebhookConfig and the signature functions    *)
(***************************************************************************)
\* A number is held in tenths, so that 1500.5 can be told from 1500.
Num(whole) == [present |-> TRUE, tenths |-> 10 * whole]
Frac(whole) == [present |-> TRUE, tenths |-> 10 * whole + 5]
NoNumber == [present |-> FALSE, tenths |-> 0]

\* Number.isInteger
isInteger(n) == n.tenths % 10 = 0

\* A secret is held by its length.
Secret(len) == [present |-> TRUE, length |-> len]
NoSecret == [present |-> FALSE, length |-> 0]

\* new URL(url) throws unless url has a scheme.
UrlChoices == {[scheme |-> "https", rest |-> "//example.com/hook"],
               [scheme |-> "", rest |-> "/hook"],
               [scheme |-> "", rest |-> "not a url"]}
parsesAsURL(url) == url.scheme # ""

WebhookConfigs ==
  [url : UrlChoices,
   secret : {NoSecret, Secret(0), Secret(31), Secret(32), Secret(64)},
   retries : {NoNumber, Num(-1), Num(0), Frac(1), Num(3)},
   timeout : {NoNumber, Num(0), Num(999), Num(1000), Frac(1500),
              Num(10000)}]

\* validateWebhookConfig(config)
validateWebhookConfig(cfg) ==
  (IF parsesAsURL(cfg.url) THEN <<>> ELSE <<"Invalid webhook URL">>)
  \o (IF cfg.secret.present /\ cfg.secret.length # 0
         /\ cfg.secret.length < 32
      THEN <<"Webhook secret should be at least 32 characters long">>
      ELSE <<>>)
  \o (IF cfg.retries.present
         /\ (~isInteger(cfg.retries) \/ cfg.retries.tenths < 0)
      THEN <<"Retries must be a non-negative integer">>
      ELSE <<>>)
  \o (IF cfg.timeout.present
         /\ (~isInteger(cfg.timeout) \/ cfg.timeout.tenths < 10 * 1000)
      THEN <<"Timeout must be at least 1000ms">>
      ELSE <<>>)

\* WebhookService.validateWebhookConfig(config); the function keeps no
\* state, so one call is followed.
ValidateWebhookConfig(cfg) ==
  /\ lastCall = NoCall
  /\ lastCall' = [fn |-> "validateWebhookConfig", config |-> cfg,
                  result |-> validateWebhookConfig(cfg)]
  /\ UNCHANGED <<transportVars, received, pollerVars, webhookVars, retryVars>>

\* Payloads are byte strings, secrets are keys.
Bytes == {0, 1}
Payloads == UNION {[1..n -> Bytes] : n \in 0..MaxPayload}
Secrets == {"k1", "k2"}

\* HMAC-SHA256 as a collision-free digest: it names what was signed and with
\* which key; its hex form has 64 characters.
hmacSha256(secret, payload) == [key |-> secret, data |-> payload]

\* generateWebhookSignature(payload, secret)
generateWebhookSignature(payload, secret) ==
  [prefix |-> "sha256=", hex |-> hmacSha256(secret, payload), length |-> 71]

\* A header that is no signature of this scheme.
Truncated == [prefix |-> "sha256=", hex |-> [key |-> "", data |-> <<>>],
              length |-> 7]

Signatures ==
  {generateWebhookSignature(p, k) : p \in Payloads, k \in Secrets}
    \cup {Truncated}

\* Mutant of verifyWebhookSignature: only the lengths are compared.
verifyWebhookSignatureLengthOnly(payload, signature, secret) ==
  LET expectedSignature == generateWebhookSignature(payload, secret)
  IN IF signature.length # expectedSignature.length
     THEN "throws"
     ELSE "true"

\* verifyWebhookSignature(payload, signature, secret); timingSafeEqual throws
\* a RangeError when the two buffers differ in length.
verifyWebhookSignature(payload, signature, secret) ==
  LET expectedSignature == generateWebhookSignature(payload, secret)
  IN IF signature.length # expectedSignature.length
     THEN "throws"
     ELSE IF signature = expectedSignature THEN "true" ELSE "false"

\* A call of verifyWebhookSignature; one call is followed.
VerifyWebhookSignature(payload, signature, secret) ==
  /\ lastCall = NoCall
  /\ lastCall' = [fn |-> "verifyWebhookSignature", payload |-> payload,
                  signature |-> signature, secret |-> secret,
                  result |-> verifyWebhookSignature(payload, signature,
                                                    secret)]
  /\ UNCHANGED <<transportVars, received, pollerVars, webhookVars, retryVars>>

InitTransport ==
  /\ connections = [c \in ConnIds |-> NoConnection]
  /\ keepAliveIntervals = [c \in ConnIds |-> FALSE]
  /\ reconnectAttempts = [c \in ConnIds |-> NoAttempts]
  /\ subscriptions = [c \in ConnIds |-> NoSubs]
  /\ isConnected = FALSE
  /\ reconnectTimer = [c \in ConnIds |-> NoTimer]
  /\ usedIds = {}
  /\ emitted = <<>>
  /\ received = [c \in ConnIds |-> <<>>]
  /\ tornDown = -1
  /\ nSent = 0
  /\ notifiedAt = NeverNotified

InitPoller ==
  /\ remote = [j \in JobIds |-> Absent]
  /\ clientCache = [j \in JobIds |-> Absent]
  /\ listCache = NoList
  /\ inflight = EmptyBag
  /\ predictionStatus = [j \in JobIds |-> Undefined]
  /\ pollInterval = [j \in JobIds |-> FALSE]
  /\ notifyLog = [j \in JobIds |-> <<>>]
  /\ polled = [j \in JobIds |-> <<>>]
  /\ spent = 0
  /\ nCalls = 0
  /\ watchers = [j \in JobIds |-> {}]
  /\ failedAt = [j \in JobIds |-> -1]

InitWebhook ==
  /\ queue = [d \in DeliveryIds |-> NoEntry]
  /\ config = [d \in DeliveryIds |-> NoConfig]
  /\ urlOk = [d \in DeliveryIds |-> TRUE]
  /\ processing = FALSE
  /\ loopAt = "idle"
  /\ inFlight = [d \in DeliveryIds |-> <<>>]
  /\ deliveryResults = [d \in DeliveryIds |-> <<>>]
  /\ scheduledDelay = [d \in DeliveryIds |-> 0]
  /\ timedOut = [d \in DeliveryIds |-> FALSE]
  /\ attemptLog = [d \in DeliveryIds |-> <<>>]
  /\ nLoops = 0

Init == InitTransport /\ InitPoller /\ InitWebhook /\ InitRetry /\ InitCalls

NextTransport ==
  \/ \E c \in ConnIds : Connect(c)
  \/ \E c \in ConnIds : ConnOpen(c)
  \/ \E c \in ConnIds : ConnFail(c)
  \/ \E c \in ConnIds : ConnError(c)
  \/ \E c \in ConnIds : ReconnectFire(c)
  \/ Disconnect
  \/ \E c \in ConnIds, u \in Uris : Subscribe(c, u)
  \/ \E c \in ConnIds, u \in Uris : Unsubscribe(c, u)
  \/ \E u \in Uris \cup {NoUri} : Notify(u)
  \/ Send

SpecTransport == Init /\ [][NextTransport]_vars

\* The connection table and the subscriptions alone: nothing is sent.
NextConnections ==
  \/ \E c \in ConnIds : Connect(c)
  \/ \E c \in ConnIds : ConnOpen(c)
  \/ \E c \in ConnIds : ConnFail(c)
  \/ \E c \in ConnIds : ConnError(c)
  \/ \E c \in ConnIds : ReconnectFire(c)
  \/ Disconnect
  \/ \E c \in ConnIds, u \in Uris : Subscribe(c, u)
  \/ \E c \in ConnIds, u \in Uris : Unsubscribe(c, u)

SpecConnections == Init /\ [][NextConnections]_vars

NextPoller ==
  \/ \E j \in JobIds : CreatePrediction(j)
  \/ \E j \in JobIds : RemoteAdvance(j)
  \/ \E j \in JobIds : ExpirePrediction(j)
  \/ ExpireList
  \/ \E j \in JobIds : PollTick(j)
  \/ \E j \in JobIds : PollTickCached(j)
  \/ \E j \in JobIds : PollComplete(j)
  \/ \E j \in JobIds : PollFail(j)
  \/ \E j \in JobIds : GetStart(j)
  \/ \E j \in JobIds : GetCached(j)
  \/ \E j \in JobIds : GetComplete(j)
  \/ \E j \in JobIds : CancelStart(j)
  \/ \E j \in JobIds : CancelComplete(j)
  \/ ListStart
  \/ ListCached
  \/ ListComplete
  \/ CallFail

SpecPoller == Init /\ [][NextPoller]_vars

NextWebhook ==
  \/ \E d \in DeliveryIds, n \in RetryChoices, u \in BOOLEAN :
       QueueWebhook(d, n, u)
  \/ \E d \in DeliveryIds, ok \in BOOLEAN : AttemptResponds(d, ok)
  \/ \E d \in DeliveryIds : AttemptThrows(d)
  \/ \E d \in DeliveryIds : AttemptTimesOut(d)
  \/ \E d \in DeliveryIds : BecomeDue(d)
  \/ WakeUp

SpecWebhook == Init /\ [][NextWebhook]_vars

\* queueWebhook stores whatever number it is given as config.retries.
NegativeRetries == -5

NextWebhookAnyConfig ==
  \/ \E d \in DeliveryIds, u \in BOOLEAN :
       QueueWebhook(d, NegativeRetries, u)
  \/ NextWebhook

SpecWebhookAnyConfig == Init /\ [][NextWebhookAnyConfig]_vars

\* The fetch of an attempt of d ends, one way or another.
AttemptEnds(d) ==
  \/ \E ok \in BOOLEAN : AttemptResponds(d, ok)
  \/ AttemptThrows(d)
  \/ AttemptTimesOut(d)

\* Every HTTP attempt terminates (fetch settles, at the latest when its
\* timeout aborts it), the clock advances, and a timer that is due fires.
SpecWebhookFair ==
  /\ SpecWebhook
  /\ \A d \in DeliveryIds : WF_vars(AttemptEnds(d))
  /\ \A d \in DeliveryIds : WF_vars(BecomeDue(d))
  /\ WF_vars(WakeUp)

NextRetry ==
  \/ \E o \in RetryOptions : WithRetries(o)
  \/ \E v \in ReturnValues : OperationResolves(v)
  \/ \E e \in ThrownValues, rnd \in AllJitter : OperationRejects(e, rnd)
  \/ TimerFires

SpecRetry == Init /\ [][NextRetry]_vars

NextClassify == \E e \in RequestErrors : IsRetryable(e)

SpecClassify == Init /\ [][NextClassify]_vars

NextValidate == \E cfg \in WebhookConfigs : ValidateWebhookConfig(cfg)

SpecValidate == Init /\ [][NextValidate]_vars

NextSignature ==
  \E p \in Payloads, sig \in Signatures, k \in Secrets :
    VerifyWebhookSignature(p, sig, k)

SpecSignature == Init /\ [][NextSignature]_vars

\* One job polled to completion while connections subscribe to it; no tool
\* call interferes.
NextE2E ==
  \/ \E c \in ConnIds : Connect(c)
  \/ \E c \in ConnIds : ConnOpen(c)
  \/ \E c \in ConnIds, j \in JobIds : Subscribe(c, PredictionUri(j))
  \/ \E j \in JobIds : CreatePrediction(j)
  \/ \E j \in JobIds : RemoteAdvance(j)
  \/ \E j \in JobIds : PollTick(j)
  \/ \E j \in JobIds : PollComplete(j)
  \/ \E j \in JobIds : PollFail(j)

SpecE2E == Init /\ [][NextE2E]_vars

(***************************************************************************)
(* Properties                                                              *)
(***************************************************************************)
IsStatus(n) == n.method = "prediction/status"
StatusEvents(j) == SelectSeq(notifyLog[j], IsStatus)

\* The position of a status in the job state machine.
Rank(st) == IF st = Starting THEN 0 ELSE IF st = Processing THEN 1 ELSE 2

\* C1: once a status transition into a terminal status has been emitted for
\* a job, no further status transition is emitted for that job.
C1_TerminalIsFinal ==
  \A j \in JobIds :
    LET ev == StatusEvents(j)
    IN \A i, k \in DOMAIN ev :
         (i < k /\ ev[i].status \in TerminalStatus)
           => ev[k].previous_status = ev[k].status

\* C2: for each tracked job at most one status fetch of the poller is in
\* flight at any time.
C2_OneFetchInFlight ==
  \A j \in JobIds : PollsInFlight(j) <= 1

\* C3: every prediction/status notification emitted for a job has a
\* previous_status different from its status.
C3_FromDiffersFromTo ==
  \A j \in JobIds :
    \A i \in DOMAIN notifyLog[j] :
      IsStatus(notifyLog[j][i])
        => notifyLog[j][i].previous_status # notifyLog[j][i].status

\* C4: a job created in Starting whose polled snapshots are Starting,
\* Starting, Processing, Processing, Succeeded has emitted exactly the two
\* transitions Starting->Processing and Processing->Succeeded, and its
\* polling has stopped.
Transition(n) == <<n.previous_status, n.status>>
Transitions(j) ==
  [i \in DOMAIN StatusEvents(j) |-> Transition(StatusEvents(j)[i])]
C4_TwoTransitions ==
  \A j \in JobIds :
    (nCalls = 0 /\ polled[j] = <<Starting, Starting, Processing, Processing,
                                 Succeeded>>)
      => /\ Transitions(j) = << <<Starting, Processing>>,
                                <<Processing, Succeeded>> >>
         /\ ~pollInterval[j]

\* C5: a step in which a fetch of the poller fails leaves the interval
\* scheduled, the last-known status unchanged and emits nothing.
PollFetchFailed(j) ==
  /\ PollsInFlight(j)' < PollsInFlight(j)
  /\ polled'[j] = polled[j]
C5_FailureKeepsTracking ==
  [][\A j \in JobIds :
       PollFetchFailed(j)
         => /\ pollInterval'[j] = pollInterval[j]
            /\ predictionStatus' = predictionStatus
            /\ notifyLog' = notifyLog
            /\ received' = received]_vars

\* C5 witness: after a failed fetch the interval is still active and a later
\* fetch was processed: the poller emitted a progress notification after the
\* failure.
C5_Witness ==
  \E j \in JobIds :
    /\ failedAt[j] >= 0
    /\ \E i \in DOMAIN notifyLog[j] :
         /\ i > failedAt[j]
         /\ notifyLog[j][i].method = "prediction/progress"

\* C6: within one job each status event starts where the previous one ended
\* and none moves backward in the state machine.
C6_MonotonicTransitions ==
  \A j \in JobIds :
    LET ev == StatusEvents(j)
    IN \A i \in DOMAIN ev :
         /\ i > 1 => ev[i].previous_status = ev[i - 1].status
         /\ Rank(ev[i].previous_status) <= Rank(ev[i].status)

\* C7: a connection open and subscribed to the URI of a job that the poller
\* saw go Starting -> Processing -> Succeeded has received the status
\* notification of Starting->Processing, one progress notification and the
\* status notification of Processing->Succeeded, in this order.
Shape(e) == <<e.data.method, e.data.previous_status, e.data.status>>
C7_EndToEnd ==
  \A j \in JobIds : \A c \in watchers[j] :
    (/\ predictionStatus[j] = Succeeded
     /\ \E i \in DOMAIN polled[j] : polled[j][i] = Processing)
      => [i \in DOMAIN received[c] |-> Shape(received[c][i])]
           = << <<"prediction/status", Starting, Processing>>,
                <<"prediction/progress", Undefined, Processing>>,
                <<"prediction/status", Processing, Succeeded>> >>

\* C8: notify dispatches the notification to a connection if and only if the
\* connection is open and its own subscription set holds the URI.
C8_NotifyRouting ==
  [][\A u \in Uris \cup {NoUri} :
       Notify(u)
         => \A c \in ConnIds :
              IF connections[c] = OPEN /\ u \in subscriptions[c]
              THEN received'[c] =
                     Append(received[c], [type |-> "notification",
                                          data |-> ResourceNotification(u)])
              ELSE received'[c] = received[c]]_vars

\* C8 witness: both connections are open, c1 is subscribed to the first URI
\* only and c2 to the second only, one notification was sent for the first
\* URI, and c1 received it while c2 received nothing.
C8_Witness ==
  LET u1 == PredictionUri("pred_1")
      u2 == PredictionUri("pred_2")
  IN /\ connections["c1"] = OPEN /\ subscriptions["c1"] = {u1}
     /\ connections["c2"] = OPEN /\ subscriptions["c2"] = {u2}
     /\ nSent = 1
     /\ received["c1"] = <<[type |-> "notification",
                            data |-> ResourceNotification(u1)]>>
     /\ received["c2"] = <<>>

\* C9: after disconnect() has completed no connection is registered in the
\* connection table until connect() is called again.
C9_NoReconnectAfterDisconnect ==
  tornDown >= 0 => RegisteredIds = {}

\* C10: disconnect() on a transport holding at least one connection leaves
\* no connection, no subscription set and no keep-alive timer, and emits
\* "disconnected" exactly once.
C10_DisconnectTearsDown ==
  [][(Disconnect /\ RegisteredIds # {})
       => /\ \A c \in ConnIds : /\ connections'[c] = NoConnection
                                /\ subscriptions'[c] = NoSubs
                                /\ ~keepAliveIntervals'[c]
          /\ emitted' = <<"disconnected">>]_vars

\* C10 witness: a disconnect() that tore down two connections.
C10_Witness ==
  /\ tornDown = 2
  /\ emitted = <<"disconnected">>
  /\ RegisteredIds = {}

\* C11: once disconnect() has completed (and connect() has not been called
\* since), notify for any resource URI delivers to no connection.
C11_NotifyAfterDisconnect ==
  [][\A u \in Uris \cup {NoUri} :
       (Notify(u) /\ tornDown >= 0) => received' = received]_vars

\* C11 witness: notify() was called after a disconnect() that tore down a
\* connection; a connection is registered and open again at that id, and
\* nothing was delivered to anybody.
C11_Witness ==
  /\ notifiedAt >= 1
  /\ tornDown >= 1
  /\ connections["c1"] = OPEN
  /\ \A c \in ConnIds : received[c] = <<>>

C13_ReconnectCeiling ==
  [][\A c \in ConnIds :
       (ConnFail(c) \/ ConnError(c))
         => IF reconnectAttempts[c] < MAX_RECONNECT_ATTEMPTS
            THEN /\ connections'[c] = CLOSED
                 /\ reconnectTimer'[c] # NoTimer
            ELSE /\ connections'[c] = NoConnection
                 /\ reconnectTimer'[c] = NoTimer
                 /\ emitted' # <<>>
                 /\ emitted'[Len(emitted')] = "error"]_vars

\* C14: send dispatches the message to every connection that is open at the
\* call, whatever its subscriptions, and to no other connection.
C14_SendBroadcast ==
  [][Send
       => \A c \in ConnIds :
            IF connections[c] = OPEN
            THEN received'[c] =
                   Append(received[c], [type |-> "message", data |-> "msg"])
            ELSE received'[c] = received[c]]_vars

\* C14 witness: one message was sent; c1 is open without any subscription
\* and received it, c2 is registered but closed and received nothing.
C14_Witness ==
  /\ connections["c1"] = OPEN /\ subscriptions["c1"] = {}
  /\ connections["c2"] = CLOSED
  /\ nSent = 1
  /\ received["c1"] = <<[type |-> "message", data |-> "msg"]>>
  /\ received["c2"] = <<>>

\* C15: subscribe(c, u) / unsubscribe(c, u) add / remove exactly u in c's own
\* subscription set and change no other subscription set, no connection
\* state, keep-alive timer or reconnect counter; for an id without a
\* subscription set nothing changes.
C15_SubscribeFrame ==
  [][\A c \in ConnIds, u \in Uris :
       /\ (Subscribe(c, u) \/ Unsubscribe(c, u))
            => /\ UNCHANGED <<connections, keepAliveIntervals,
                              reconnectAttempts, reconnectTimer, received>>
               /\ \A d \in ConnIds \ {c} :
                    subscriptions'[d] = subscriptions[d]
               /\ subscriptions[c] = NoSubs => subscriptions'[c] = NoSubs
       /\ (Subscribe(c, u) /\ subscriptions[c] # NoSubs)
            => subscriptions'[c] = subscriptions[c] \cup {u}
       /\ (Unsubscribe(c, u) /\ subscriptions[c] # NoSubs)
            => subscriptions'[c] = subscriptions[c] \ {u}]_vars

\* C15 witness: c1 was subscribed to both URIs while c2, registered as
\* well, still has its empty subscription set.
C15_Witness ==
  /\ subscriptions["c1"] = Uris
  /\ subscriptions["c2"] = {}
  /\ connections["c1"] # NoConnection
  /\ connections["c2"] # NoConnection

\* Every attempt of delivery d made so far has failed.
AllFailed(d) ==
  \A i \in DOMAIN attemptLog[d] : ~attemptLog[d][i].success

\* Delivery d was queued and is neither pending nor being attempted.
Settled(d) ==
  /\ config[d] # NoConfig
  /\ queue[d] = NoEntry
  /\ inFlight[d] = <<>>

FailedResults(n) ==
  [i \in 1..n |-> [success |-> FALSE, retryCount |-> i - 1]]

C18_SingleLoop ==
  /\ nLoops <= 1
  /\ processing <=> nLoops = 1
  /\ loopAt # "idle" <=> nLoops = 1

\* C18 witness: the second webhook was queued while the loop slept until
\* the retry of the first; it waits in the queue and one loop is active.
C18_Witness ==
  /\ loopAt = "sleeping"
  /\ queue["w1"] # NoEntry /\ queue["w1"].nextAttempt = "later"
  /\ queue["w2"] # NoEntry /\ queue["w2"].nextAttempt = "none"
  /\ nLoops = 1

LastN(s, n) == IF Len(s) > n THEN SubSeq(s, Len(s) - n + 1, Len(s)) ELSE s

\* C20: the history of a delivery holds at most HISTORY_LIMIT results, and
\* they are the most recent results recorded for it, in order.
C20_BoundedHistory ==
  \A d \in DeliveryIds :
    /\ Len(deliveryResults[d]) <= HISTORY_LIMIT
    /\ deliveryResults[d] = LastN(attemptLog[d], HISTORY_LIMIT)

\* C20 witness: twelve results were recorded for w1 and its history holds
\* the ten with retryCount 2..11.
C20_Witness ==
  /\ Len(attemptLog["w1"]) = 12
  /\ Len(deliveryResults["w1"]) = HISTORY_LIMIT
  /\ deliveryResults["w1"][1].retryCount = 2
  /\ deliveryResults["w1"][HISTORY_LIMIT].retryCount = 11

\* C29: once a status fetch of the poller has returned a terminal status,
\* the repeating check of that job is stopped, also when a tool call wrote
\* the terminal status to the status table before.
C29_TerminalFetchStops ==
  \A j \in JobIds :
    (polled[j] # <<>> /\ polled[j][Len(polled[j])] \in TerminalStatus)
      => ~pollInterval[j]

\* C30: the status table entry of a tracked job changes only in a step of
\* the poller's own tick, never in a get_prediction, list_predictions or
\* cancel_prediction step.
C30_TableWrittenByPollerOnly ==
  [][\A j \in JobIds :
       (predictionStatus[j] # Undefined
        /\ predictionStatus'[j] # predictionStatus[j])
         => polled'[j] # polled[j]]_vars

\* C21: a webhook whose config is invalid (its url is no absolute URL) is
\* never in the queue and never attempted.
C21_InvalidConfigRejected ==
  \A d \in DeliveryIds :
    ~urlOk[d] => /\ queue[d] = NoEntry
                 /\ inFlight[d] = <<>>
                 /\ attemptLog[d] = <<>>

C23_PredicateFalse ==
  (options.retry_if = "never" /\ invocations > 0)
    => /\ invocations = 1
       /\ waits = <<>>
       /\ onRetryLog = <<>>
       /\ (thrown # NoValue => retryAt = "rejected")

C23_Witness ==
  /\ options.retry_if = "never"
  /\ options.max_attempts >= 3
  /\ retryAt = "rejected"
  /\ thrown = RateLimited

C25_RejectionUnwrapped ==
  retryAt = "rejected" => settled = thrown

\* C26: with min_delay 1000, factor 2, max_delay 10000 and no jitter the
\* delays for attempts 0, 1, 2, 3 are 1000, 2000, 4000, 8000 and those for
\* attempt 4 and above are 10000.
ExampleBackoff ==
  [min_delay |-> 1000, max_delay |-> 10000, factor |-> 2, jitter |-> FALSE]

ExampleDelay(n) ==
  IF n <= 3 THEN <<1000, 2000, 4000, 8000>>[n + 1] ELSE 10000

C26_BackoffDelays ==
  /\ options.backoff = ExampleBackoff
       => \A i \in 1..Len(waits) : waits[i] = ExampleDelay(i - 1)
  /\ \A n \in 0..(2 * MaxAttempts) :
       getBackoffDelay(n, ExampleBackoff, 0) = ExampleDelay(n)

C26_Witness ==
  /\ options.backoff = ExampleBackoff
  /\ Len(waits) = 5
  /\ waits[5] = 10000

\* C27: validateWebhookConfig returns exactly one error per violated rule,
\* in the order of the rules, and nothing else: url no absolute URL; secret
\* present and shorter than 32 characters; retries present and no
\* non-negative integer; timeout present and below 1000 ms.
RuleErrors(cfg) ==
  (IF ~parsesAsURL(cfg.url) THEN <<"Invalid webhook URL">> ELSE <<>>)
  \o (IF cfg.secret.present /\ cfg.secret.length < 32
      THEN <<"Webhook secret should be at least 32 characters long">>
      ELSE <<>>)
  \o (IF cfg.retries.present
         /\ ~(isInteger(cfg.retries) /\ cfg.retries.tenths >= 0)
      THEN <<"Retries must be a non-negative integer">>
      ELSE <<>>)
  \o (IF cfg.timeout.present /\ cfg.timeout.tenths < 10 * 1000
      THEN <<"Timeout must be at least 1000ms">>
      ELSE <<>>)

C27_OneErrorPerRule ==
  lastCall.fn = "validateWebhookConfig"
    => lastCall.result = RuleErrors(lastCall.config)

\* C28: a signature generated for a payload and a secret verifies against
\* them, and it does not verify against a payload that differs from the
\* signed one in exactly one byte.
OneByteApart(p, q) ==
  /\ Len(p) = Len(q)
  /\ Cardinality({i \in 1..Len(p) : p[i] # q[i]}) = 1

C40_MismatchReturnsFalse ==
  (lastCall.fn = "verifyWebhookSignature"
   /\ lastCall.signature
        # generateWebhookSignature(lastCall.payload, lastCall.secret))
    => lastCall.result = "false"

\* C31: the wait started by an error-induced close is
\* min(30 s, 1 s * 2^attempts), attempts being the reconnections already
\* attempted for the connection before this one (0 for the first).
C31_ReconnectWait ==
  [][\A c \in ConnIds :
       (reconnectTimer[c] = NoTimer /\ reconnectTimer'[c] # NoTimer)
         => reconnectTimer'[c] =
              Min(RECONNECT_CAP,
                  1000 * Pow2(IF reconnectAttempts[c] = NoAttempts THEN 0
                              ELSE reconnectAttempts[c]))]_vars

\* C37: the four per-connection tables have the same key set in every
\* reachable state.
C37_TablesAgree ==
  \A c \in ConnIds :
    /\ (connections[c] # NoConnection) <=> keepAliveIntervals[c]
    /\ (connections[c] # NoConnection) <=> (reconnectAttempts[c] # NoAttempts)
    /\ (connections[c] # NoConnection) <=> (subscriptions[c] # NoSubs)

\* C38: the steps of an automatic reconnection (the error-induced close, the
\* registration of the replacement, its opening) keep the connection
\* registered under its id and change no subscription set; a connection
\* receives something only in a step in which it is Open, so a notification
\* issued while it was not Open never reaches it; and a notify for a URI in
\* the subscription set of an Open connection is delivered to it.
C38_ReconnectKeepsSubscriptions ==
  [][\A c \in ConnIds :
       /\ ((ConnError(c) /\ reconnectTimer'[c] # reconnectTimer[c])
           \/ ReconnectFire(c) \/ ConnOpen(c))
            => /\ subscriptions' = subscriptions
               /\ connections'[c] # NoConnection
       /\ received'[c] # received[c] => connections[c] = OPEN
       /\ \A u \in Uris :
            (Notify(u) /\ connections[c] = OPEN
             /\ subscriptions[c] # NoSubs /\ u \in subscriptions[c])
              => received'[c] =
                   Append(received[c], [type |-> "notification",
                                        data |-> ResourceNotification(u)])]_vars

\* C38 witness: the replacement of c1 is registered under the same id after
\* a second error-induced close, with the subscription made before the
\* first one, and the one notification issued meanwhile was not delivered.
C38_Witness ==
  /\ connections["c1"] = CONNECTING
  /\ reconnectAttempts["c1"] = 2
  /\ reconnectTimer["c1"] = NoTimer
  /\ subscriptions["c1"] = {PredictionUri("pred_1")}
  /\ nSent = 1
  /\ received["c1"] = <<>>

\* C34: the default retry predicate returns true for network failures,
\* timeouts, 5xx responses and rate-limit errors, and false for
\* authentication, validation and not-found errors.
ClaimedRetryable(e) ==
  \/ e.class \in {"TypeError", "TimeoutError", "DOMException",
                  "RateLimitExceeded"}
  \/ e.class = "APIError" /\ (e.status \in 500..599 \/ e.status = 429)

ClaimedNotRetryable(e) ==
  \/ e.class \in {"AuthenticationError", "ValidationError", "NotFoundError"}
  \/ e.class = "APIError" /\ e.status \in {400, 401, 403, 404, 422}

C34_DefaultPredicate ==
  lastCall.fn = "isRetryable"
    => /\ ClaimedRetryable(lastCall.error) => lastCall.result
       /\ ClaimedNotRetryable(lastCall.error) => ~lastCall.result

\* C35: after a failure with a rate-limit error that carries a suggested
\* delay, the wait before the next invocation is at least that delay.
C35_HonoursRetryAfter ==
  \A i \in 1..Len(waits) :
    onRetryLog[i].error.retryAfter > 0
      => waits[i] >= 1000 * onRetryLog[i].error.retryAfter

\* C32: an attempt aborted by its own timeout is recorded as a failed result
\* with the retryCount it was started with, and is accounted as an HTTP
\* failure is: while retryCount < retries the delivery's retryCount is
\* incremented and it is rescheduled, otherwise it leaves the queue.
C32_TimeoutIsFailure ==
  [][\A d \in DeliveryIds :
       AttemptTimesOut(d)
         => LET r == Head(inFlight[d])
            IN /\ attemptLog'[d] =
                    Append(attemptLog[d],
                           [success |-> FALSE, retryCount |-> r])
               /\ getDeliveryResults(d)'[Len(getDeliveryResults(d)')] =
                    [success |-> FALSE, retryCount |-> r]
               /\ IF r < maxRetriesOf(config[d])
                  THEN queue'[d] = [retryCount |-> queue[d].retryCount + 1,
                                    nextAttempt |-> "later"]
                  ELSE queue'[d] = NoEntry
               /\ queue'[d] =
                    settle(queue[d], FALSE, r, config[d])]_vars

\* C32 witness: the second attempt of a delivery queued with retries = 2 was
\* aborted by its timeout and the delivery is rescheduled with retryCount 2.
C32_Witness ==
  /\ config["w1"] = 2
  /\ timedOut["w1"]
  /\ attemptLog["w1"] = FailedResults(2)
  /\ queue["w1"] = [retryCount |-> 2, nextAttempt |-> "later"]

C39_RetryCountBounds ==
  /\ [](\A d \in DeliveryIds :
          /\ queue[d] # NoEntry
               => /\ 0 <= queue[d].retryCount
                  /\ queue[d].retryCount <= maxRetriesOf(config[d])
                  /\ queue[d].retryCount =
                       Cardinality({i \in DOMAIN attemptLog[d] :
                                      ~attemptLog[d][i].success})
          /\ \A i \in DOMAIN attemptLog[d] :
               attemptLog[d][i].retryCount = i - 1)
  /\ [][\A d \in DeliveryIds :
          config[d] # NoConfig => config'[d] = config[d]]_vars

====
